---- MODULE Spec2Model ----
(***************************************************************************)
(* LocatorService (src/src/LocatorService.ts): a key-based service locator  *)
(* with three registration kinds.  The registry is three JavaScript Maps.  *)
(* get() runs a caller-supplied factory function in the middle of its lazy  *)
(* and factory branches; that function is arbitrary code of the caller and  *)
(* may call back into the registry, so get() is modelled in two steps: the  *)
(* call up to the invocation of the factory (get), and what get() does when *)
(* the factory returns (factoryReturns) or throws (factoryThrows).  Every   *)
(* registry call made while a factory is running is a call made by that     *)
(* factory.                                                                 *)
(***************************************************************************)
EXTENDS Integers, Sequences, FiniteSets, TLC

\* ---------------------------------------------------------------- bounds
\* Nesting depth of get() calls (a factory that calls get()).
MaxDepth == 2
\* Invocations of factory functions over a run.
MaxCalls == 2
\* ViewModel objects a component's create option is asked for.
MaxCreates == 2
\* Pre-created instances a caller can hand to registerSingleton.
NumInstances == 2

Keys == {"a", "b"}
\* The factory functions callers register.
Factories == {"f", "g"}

NoValue == [src |-> "none", n |-> 0]
\* Objects created by the caller before registration (`new UsersApi()`).
Instances == [src : {"new"}, n : 1..NumInstances]
\* The object the n-th factory invocation of the run creates: every
\* invocation creates a new object, as `() => { callCount++; return {...} }`.
Created(n) == [src |-> "factory", n |-> n]
\* The values a component passes as the `arguments` option.
Args == {"p", "q"}

\* A component before its first render: useMemo has no cell yet.
NoService ==
  [alive |-> FALSE, rendering |-> FALSE, tick |-> FALSE, deps |-> "",
   memo |-> NoValue, out |-> NoValue, how |-> "none"]

\* The fields useViewModel writes on the ViewModel object.
NoViewModel == [arguments |-> "", isInitialised |-> FALSE, isMounted |-> FALSE]

\* A component before its first render: useRef(true), useState(false),
\* useRef(null); nothing created, initialised or disposed.
NoComponent ==
  [phase |-> "none", viewModelRef |-> 0, isMountedRef |-> TRUE,
   isInitialised |-> FALSE, viewModel |-> NoViewModel, closure |-> 0,
   onInitialise |-> FALSE, onDispose |-> FALSE, initialize |-> "idle",
   dirty |-> FALSE, creates |-> 0, createArg |-> "", inits |-> 0, disposes |-> 0,
   initArg |-> 0, disposeArg |-> 0, handed |-> "none", lateUpdate |-> FALSE]

VARIABLES
  singletons,              \* Map<string, unknown>
  lazySingletonFactories,  \* Map<string, Factory>
  factories,               \* Map<string, Factory>
  stack,                   \* the get() calls whose factory is running, innermost first
  calls,                   \* how many times a factory function was invoked so far
  last,                    \* the call that completed (or the factory invoked) in the last step
  reg,                     \* history: per key, its standing registration
  everRegistered,          \* history: keys some register* call has accepted
  _instance,                \* LocatorService._instance: 0 is null, else the object
  locator,                 \* the exported `locator`: 0 until the module is evaluated
  constructed,             \* how many times `new LocatorService()` has run
  svc,                     \* one component that calls useService: its memo cell
  vmc                      \* one component that calls useViewModel: its hook cells

\* The class and its exported accessor.
process == <<_instance, locator, constructed>>

\* The hook state of the two React components.
hooks == <<svc, vmc>>

vars == <<singletons, lazySingletonFactories, factories, stack, calls, last,
          reg, everRegistered, _instance, locator, constructed, svc, vmc>>

maps == <<singletons, lazySingletonFactories, factories>>

\* ------------------------------------------------------- JavaScript Map
MapEmpty == [x \in {} |-> NoValue]
MapHas(m, key) == key \in DOMAIN m
MapSet(m, key, v) == [x \in (DOMAIN m) \cup {key} |-> IF x = key THEN v ELSE m[x]]
MapDelete(m, key) == [x \in (DOMAIN m) \ {key} |-> m[x]]

\* ------------------------------------------------------------- history
NoReg == [kind |-> "none", invoked |-> 0, result |-> NoValue]
NewReg(kind, instance) ==
  [kind |-> kind, invoked |-> 0, result |-> instance]

Done(op, key, outcome, branch, value) ==
  [op |-> op, key |-> key, outcome |-> outcome, branch |-> branch, value |-> value]

\* A successful get(key) is noted in the standing registration of key.
NoteResult(key, value) ==
  IF reg[key].kind # "none" /\ reg[key].result = NoValue
  THEN [reg EXCEPT ![key].result = value]
  ELSE reg

\* A running factory's frame notes whether the registry was changed under it.
Touch(frames) == [i \in 1..Len(frames) |-> [frames[i] EXCEPT !.touched = TRUE]]

\* ------------------------------------------------------------ registry
\* The class before the module is evaluated, its maps as constructed.
InitRegistry ==
  /\ singletons = MapEmpty
  /\ lazySingletonFactories = MapEmpty
  /\ factories = MapEmpty
  /\ stack = << >>
  /\ calls = 0
  /\ last = Done("new", "", "ok", "none", NoValue)
  /\ reg = [k \in Keys |-> NoReg]
  /\ everRegistered = {}
  /\ _instance = 0
  /\ locator = 0
  /\ constructed = 0

\* The hook cells of a component that the run never renders.
NoHook == << >>

\* A process that uses the registry and renders neither component.
Init == InitRegistry /\ svc = NoHook /\ vmc = NoHook

\* A process about to render the component that calls useService.
InitService == InitRegistry /\ svc = NoService /\ vmc = NoHook

\* A process about to render the component that calls useViewModel.
InitViewModel == InitRegistry /\ svc = NoHook /\ vmc = NoComponent

\* Fault: isRegistered that looks only at what is already constructed or
\* constructed per call, and misses the unresolved lazy singletons.
isRegisteredResolved(key) ==
  \/ MapHas(singletons, key)
  \/ MapHas(factories, key)

isRegistered(key) ==
  \/ MapHas(singletons, key)
  \/ MapHas(lazySingletonFactories, key)
  \/ MapHas(factories, key)

\* The duplicate-key throw shared by the three register methods.
throwDuplicate(op, key) ==
  /\ last' = Done(op, key, "duplicate", "none", NoValue)
  /\ UNCHANGED <<singletons, lazySingletonFactories, factories, stack, calls,
                 reg, everRegistered>>

registerSingleton(key, instance) ==
  IF isRegistered(key)
  THEN throwDuplicate("registerSingleton", key)
  ELSE /\ singletons' = MapSet(singletons, key, instance)
       /\ last' = Done("registerSingleton", key, "ok", "none", instance)
       /\ reg' = [reg EXCEPT ![key] = NewReg("singleton", instance)]
       /\ everRegistered' = everRegistered \cup {key}
       /\ stack' = Touch(stack)
       /\ UNCHANGED <<lazySingletonFactories, factories, calls>>

\* Fault: a registration that constructs at once (an eager singleton).
registerLazySingletonEager(key, factory) ==
  IF isRegistered(key)
  THEN throwDuplicate("registerLazySingleton", key)
  ELSE /\ calls < MaxCalls
       /\ calls' = calls + 1
       /\ singletons' = MapSet(singletons, key, Created(calls + 1))
       /\ last' = Done("registerLazySingleton", key, "ok", "none", NoValue)
       /\ reg' = [reg EXCEPT ![key] = NewReg("lazy", NoValue)]
       /\ everRegistered' = everRegistered \cup {key}
       /\ stack' = Touch(stack)
       /\ UNCHANGED <<lazySingletonFactories, factories>>

registerLazySingleton(key, factory) ==
  IF isRegistered(key)
  THEN throwDuplicate("registerLazySingleton", key)
  ELSE /\ lazySingletonFactories' = MapSet(lazySingletonFactories, key, factory)
       /\ last' = Done("registerLazySingleton", key, "ok", "none", NoValue)
       /\ reg' = [reg EXCEPT ![key] = NewReg("lazy", NoValue)]
       /\ everRegistered' = everRegistered \cup {key}
       /\ stack' = Touch(stack)
       /\ UNCHANGED <<singletons, factories, calls>>

\* Fault: registerFactory that tests its own map instead of isRegistered.
registerFactoryOwnMap(key, factory) ==
  IF MapHas(factories, key)
  THEN throwDuplicate("registerFactory", key)
  ELSE /\ factories' = MapSet(factories, key, factory)
       /\ last' = Done("registerFactory", key, "ok", "none", NoValue)
       /\ reg' = [reg EXCEPT ![key] = NewReg("factory", NoValue)]
       /\ everRegistered' = everRegistered \cup {key}
       /\ stack' = Touch(stack)
       /\ UNCHANGED <<singletons, lazySingletonFactories, calls>>

registerFactory(key, factory) ==
  IF isRegistered(key)
  THEN throwDuplicate("registerFactory", key)
  ELSE /\ factories' = MapSet(factories, key, factory)
       /\ last' = Done("registerFactory", key, "ok", "none", NoValue)
       /\ reg' = [reg EXCEPT ![key] = NewReg("factory", NoValue)]
       /\ everRegistered' = everRegistered \cup {key}
       /\ stack' = Touch(stack)
       /\ UNCHANGED <<singletons, lazySingletonFactories, calls>>

\* Fault: get() that tests the maps in the opposite order.
BranchFactoriesFirst(key) ==
  IF MapHas(factories, key) THEN "factory"
  ELSE IF MapHas(lazySingletonFactories, key) THEN "lazy"
  ELSE IF MapHas(singletons, key) THEN "singleton"
  ELSE "none"

\* The branch get(key) takes: the three has() tests in their order.
Branch(key) ==
  IF MapHas(singletons, key) THEN "singleton"
  ELSE IF MapHas(lazySingletonFactories, key) THEN "lazy"
  ELSE IF MapHas(factories, key) THEN "factory"
  ELSE "none"

\* Fault: get() that ends with `return this.singletons.get(key)` (undefined)
\* instead of the throw.
returnUndefined(key) ==
  /\ last' = Done("get", key, "ok", "none", NoValue)
  /\ UNCHANGED <<singletons, lazySingletonFactories, factories, stack, calls,
                 reg, everRegistered>>

\* The not-registered throw at the end of get().
throwNotRegistered(key) ==
  /\ last' = Done("get", key, "notRegistered", "none", NoValue)
  /\ UNCHANGED <<singletons, lazySingletonFactories, factories, stack, calls,
                 reg, everRegistered>>

\* get() up to `factory()`: the frame of the running factory is pushed, and
\* `last` says which function was invoked, for the n-th invocation of the run.
invoke(key, branch, factory) ==
  /\ Len(stack) < MaxDepth
  /\ calls < MaxCalls
  /\ calls' = calls + 1
  /\ stack' = <<[key |-> key, branch |-> branch, n |-> calls + 1,
                 touched |-> FALSE]>> \o stack
  /\ last' = Done("invoke", key, "running", branch, [src |-> factory, n |-> calls + 1])
  /\ reg' = IF reg[key].kind # "none"
            THEN [reg EXCEPT ![key].invoked = @ + 1]
            ELSE reg
  /\ UNCHANGED <<singletons, lazySingletonFactories, factories, everRegistered>>

\* Fault: get() without its third branch, the look-up in factories.
getWithoutFactories(key) ==
  CASE MapHas(singletons, key) ->
         /\ last' = Done("get", key, "ok", "singleton", singletons[key])
         /\ reg' = NoteResult(key, singletons[key])
         /\ UNCHANGED <<singletons, lazySingletonFactories, factories, stack,
                        calls, everRegistered>>
    [] ~MapHas(singletons, key) /\ MapHas(lazySingletonFactories, key) ->
         invoke(key, "lazy", lazySingletonFactories[key])
    [] OTHER ->
         throwNotRegistered(key)

\* Fault: get() with cycle detection, which refuses a key whose constructor
\* is running.
getDetectingCycles(key) ==
  IF \E i \in 1..Len(stack) : stack[i].key = key
  THEN /\ last' = Done("get", key, "cycle", "none", NoValue)
       /\ UNCHANGED <<singletons, lazySingletonFactories, factories, stack, calls,
                      reg, everRegistered>>
  ELSE CASE Branch(key) = "singleton" ->
              /\ last' = Done("get", key, "ok", "singleton", singletons[key])
              /\ reg' = NoteResult(key, singletons[key])
              /\ UNCHANGED <<singletons, lazySingletonFactories, factories, stack,
                             calls, everRegistered>>
         [] Branch(key) = "lazy" ->
              invoke(key, "lazy", lazySingletonFactories[key])
         [] Branch(key) = "factory" ->
              invoke(key, "factory", factories[key])
         [] OTHER ->
              throwNotRegistered(key)

get(key) ==
  CASE Branch(key) = "singleton" ->
         /\ last' = Done("get", key, "ok", "singleton", singletons[key])
         /\ reg' = NoteResult(key, singletons[key])
         /\ UNCHANGED <<singletons, lazySingletonFactories, factories, stack,
                        calls, everRegistered>>
    [] Branch(key) = "lazy" ->
         invoke(key, "lazy", lazySingletonFactories[key])
    [] Branch(key) = "factory" ->
         invoke(key, "factory", factories[key])
    [] OTHER ->
         throwNotRegistered(key)

\* Fault: a promotion that rebuilds the singletons map around the one key.
promoteAlone(key, instance) ==
  /\ singletons' = [x \in {key} |-> instance]
  /\ lazySingletonFactories' = MapDelete(lazySingletonFactories, key)
  /\ stack' = Touch(Tail(stack))

\* "Move to singletons and remove factory": the two statements after
\* `factory()` in the lazy branch.
promote(key, instance) ==
  /\ singletons' = MapSet(singletons, key, instance)
  /\ lazySingletonFactories' = MapDelete(lazySingletonFactories, key)
  /\ stack' = Touch(Tail(stack))

\* Fault: get() that caches what a plain factory made, as the lazy branch does.
factoryReturnsCaching ==
  /\ stack # << >>
  /\ LET frame == Head(stack)
         instance == Created(frame.n)
     IN /\ singletons' = MapSet(singletons, frame.key, instance)
        /\ lazySingletonFactories' = MapDelete(lazySingletonFactories, frame.key)
        /\ stack' = Touch(Tail(stack))
        /\ last' = Done("get", frame.key, "ok", frame.branch, instance)
        /\ reg' = NoteResult(frame.key, instance)
        /\ UNCHANGED <<factories, calls, everRegistered>>

\* The running factory returns its instance to the get() that invoked it.
factoryReturns ==
  /\ stack # << >>
  /\ LET frame == Head(stack)
         instance == Created(frame.n)
     IN /\ IF frame.branch = "lazy"
           THEN promote(frame.key, instance)
           ELSE /\ stack' = Tail(stack)
                /\ UNCHANGED <<singletons, lazySingletonFactories>>
        /\ last' = Done("get", frame.key, "ok", frame.branch, instance)
        /\ reg' = NoteResult(frame.key, instance)
        /\ UNCHANGED <<factories, calls, everRegistered>>

\* Fault: the lazy branch deletes the factory before it knows that the
\* construction succeeded, so a throw leaves the key without its factory.
factoryThrowsAfterDelete ==
  /\ stack # << >>
  /\ LET frame == Head(stack)
     IN /\ stack' = Tail(stack)
        /\ last' = Done("get", frame.key, "factoryError", frame.branch, NoValue)
        /\ lazySingletonFactories' =
             IF frame.branch = "lazy"
             THEN MapDelete(lazySingletonFactories, frame.key)
             ELSE lazySingletonFactories
        /\ UNCHANGED <<singletons, factories, calls, reg, everRegistered>>

\* The running factory throws (its own error, or one of a call it made):
\* nothing in get() catches it.
factoryThrows ==
  /\ stack # << >>
  /\ LET frame == Head(stack)
     IN /\ stack' = Tail(stack)
        /\ last' = Done("get", frame.key, "factoryError", frame.branch, NoValue)
        /\ UNCHANGED <<singletons, lazySingletonFactories, factories, calls,
                       reg, everRegistered>>

callIsRegistered(key) ==
  /\ last' = Done("isRegistered", key,
                  IF isRegistered(key) THEN "true" ELSE "false", "none", NoValue)
  /\ UNCHANGED <<singletons, lazySingletonFactories, factories, stack, calls,
                 reg, everRegistered>>

\* Fault: unregister that forgets the singletons map, where a resolved lazy
\* singleton lives.
unregisterFactoriesOnly(key) ==
  /\ lazySingletonFactories' = MapDelete(lazySingletonFactories, key)
  /\ factories' = MapDelete(factories, key)
  /\ last' = Done("unregister", key, "ok", Branch(key),
                  IF MapHas(singletons, key) THEN singletons[key] ELSE NoValue)
  /\ reg' = [reg EXCEPT ![key] = NoReg]
  /\ stack' = IF <<lazySingletonFactories', factories'>>
                   # <<lazySingletonFactories, factories>>
            THEN Touch(stack) ELSE stack
  /\ UNCHANGED <<singletons, calls, everRegistered>>

\* Fault: unregister that empties the singletons map instead of deleting
\* the one key from it.
unregisterClearing(key) ==
  /\ singletons' = MapEmpty
  /\ lazySingletonFactories' = MapDelete(lazySingletonFactories, key)
  /\ factories' = MapDelete(factories, key)
  /\ last' = Done("unregister", key, "ok", Branch(key),
                  IF MapHas(singletons, key) THEN singletons[key] ELSE NoValue)
  /\ reg' = [reg EXCEPT ![key] = NoReg]
  /\ stack' = IF <<singletons', lazySingletonFactories', factories'>> # maps
            THEN Touch(stack) ELSE stack
  /\ UNCHANGED <<calls, everRegistered>>

\* Fault: unregister that throws for a key that is not registered.
unregisterStrict(key) ==
  IF ~isRegistered(key)
  THEN /\ last' = Done("unregister", key, "notRegistered", "none", NoValue)
       /\ UNCHANGED <<singletons, lazySingletonFactories, factories,
                      stack, calls, reg, everRegistered>>
  ELSE /\ singletons' = MapDelete(singletons, key)
       /\ lazySingletonFactories' = MapDelete(lazySingletonFactories, key)
       /\ factories' = MapDelete(factories, key)
       /\ last' = Done("unregister", key, "ok", Branch(key),
                       IF MapHas(singletons, key) THEN singletons[key] ELSE NoValue)
       /\ reg' = [reg EXCEPT ![key] = NoReg]
       /\ stack' = Touch(stack)
       /\ UNCHANGED <<calls, everRegistered>>

unregister(key) ==
  /\ singletons' = MapDelete(singletons, key)
  /\ lazySingletonFactories' = MapDelete(lazySingletonFactories, key)
  /\ factories' = MapDelete(factories, key)
  /\ last' = Done("unregister", key, "ok", Branch(key),
                  IF MapHas(singletons, key) THEN singletons[key] ELSE NoValue)
  /\ reg' = [reg EXCEPT ![key] = NoReg]
  /\ stack' = IF <<singletons', lazySingletonFactories', factories'>> # maps
            THEN Touch(stack) ELSE stack
  /\ UNCHANGED <<calls, everRegistered>>

\* Fault: reset that forgets `this.singletons.clear()`.
resetFactoriesOnly ==
  /\ lazySingletonFactories' = MapEmpty
  /\ factories' = MapEmpty
  /\ last' = Done("reset", "", "ok", "none",
                  [src |-> "cleared", n |-> Cardinality({k \in Keys : isRegistered(k)})])
  /\ reg' = [k \in Keys |-> NoReg]
  /\ stack' = IF <<lazySingletonFactories', factories'>>
                   # <<lazySingletonFactories, factories>>
            THEN Touch(stack) ELSE stack
  /\ UNCHANGED <<singletons, calls, everRegistered>>

\* `last` notes how many keys were registered when reset cleared the maps.
reset ==
  /\ singletons' = MapEmpty
  /\ lazySingletonFactories' = MapEmpty
  /\ factories' = MapEmpty
  /\ last' = Done("reset", "", "ok", "none",
                  [src |-> "cleared", n |-> Cardinality({k \in Keys : isRegistered(k)})])
  /\ reg' = [k \in Keys |-> NoReg]
  /\ stack' = IF <<singletons', lazySingletonFactories', factories'>> # maps
            THEN Touch(stack) ELSE stack
  /\ UNCHANGED <<calls, everRegistered>>

\* The object a LocatorService is, by the order of construction.
LocatorObject(n) == [src |-> "LocatorService", n |-> n]

\* Fault: an accessor that constructs a LocatorService on every read.
getIAlwaysNew == constructed + 1

\* `static get I()`: the value of _instance after the getter, which it returns.
getI == IF _instance = 0 THEN constructed + 1 ELSE _instance

\* A read of LocatorService.I by any code of the process.
readI ==
  /\ locator # 0
  /\ _instance' = getI
  /\ constructed' = IF _instance' # _instance THEN constructed + 1 ELSE constructed
  /\ last' = Done("I", "", "ok", "none", LocatorObject(_instance'))
  /\ UNCHANGED <<singletons, lazySingletonFactories, factories, stack, calls,
                 reg, everRegistered, locator>>

\* Evaluation of the module: `export const locator = LocatorService.I`.
loadModule ==
  /\ locator = 0
  /\ _instance' = getI
  /\ constructed' = IF _instance' # _instance THEN constructed + 1 ELSE constructed
  /\ locator' = _instance'
  /\ last' = Done("load", "", "ok", "none", LocatorObject(_instance'))
  /\ UNCHANGED <<singletons, lazySingletonFactories, factories, stack, calls,
                 reg, everRegistered>>

\* The methods are called on the one LocatorService the process can reach.
onLocator == locator # 0 /\ UNCHANGED process

\* A call made by code that is not one of the two components.
direct == onLocator /\ UNCHANGED hooks

Next ==
  \/ loadModule /\ UNCHANGED hooks
  \/ \E key \in Keys, inst \in Instances : direct /\ registerSingleton(key, inst)
  \/ \E key \in Keys, factory \in Factories : direct /\ registerLazySingleton(key, factory)
  \/ \E key \in Keys, factory \in Factories : direct /\ registerFactory(key, factory)
  \/ \E key \in Keys : direct /\ get(key)
  \/ direct /\ factoryReturns
  \/ direct /\ factoryThrows
  \/ \E key \in Keys : direct /\ callIsRegistered(key)
  \/ \E key \in Keys : direct /\ unregister(key)
  \/ direct /\ reset

Spec == Init /\ [][Next]_vars


\* ------------------------------------------------------ LocatorService.I
\* A call made by the application itself, not by a running factory.
topLevel == direct /\ stack = << >>

\* The registry used through `locator` while other code reads
\* LocatorService.I at any moment, a running factory included.
NextAccessor ==
  \/ loadModule /\ UNCHANGED hooks
  \/ readI /\ UNCHANGED hooks
  \/ \E key \in Keys, inst \in Instances : topLevel /\ registerSingleton(key, inst)
  \/ \E key \in Keys, factory \in Factories :
       topLevel /\ registerLazySingleton(key, factory)
  \/ \E key \in Keys, factory \in Factories : topLevel /\ registerFactory(key, factory)
  \/ \E key \in Keys : topLevel /\ get(key)
  \/ direct /\ factoryReturns
  \/ direct /\ factoryThrows
  \/ \E key \in Keys : topLevel /\ callIsRegistered(key)
  \/ \E key \in Keys : topLevel /\ unregister(key)
  \/ topLevel /\ reset

SpecAccessor == Init /\ [][NextAccessor]_vars

\* ------------------------------------------------- dependency wiring
\* A constructor pulls a dependency: the get(key) it calls names a key other
\* than those whose constructors are running.
pulls(key) == \A i \in 1..Len(stack) : stack[i].key # key

\* Manual dependency wiring: constructors that call get() for the services
\* they depend on, make no other registry call, and return their object.
NextWiring ==
  \/ loadModule /\ UNCHANGED hooks
  \/ \E key \in Keys, inst \in Instances : topLevel /\ registerSingleton(key, inst)
  \/ \E key \in Keys, factory \in Factories :
       topLevel /\ registerLazySingleton(key, factory)
  \/ \E key \in Keys, factory \in Factories : topLevel /\ registerFactory(key, factory)
  \/ \E key \in Keys : direct /\ pulls(key) /\ get(key)
  \/ direct /\ factoryReturns
  \/ \E key \in Keys : topLevel /\ unregister(key)
  \/ topLevel /\ reset

SpecWiring == Init /\ [][NextWiring]_vars

\* ------------------------------------------------------------ useService
\* Fault: a useMemo that recomputes on every render.
useMemoNever(key) == FALSE

\* useMemo(..., [key]): the cell of this component holds a value computed
\* for the same key.
useMemoHit(key) == svc.alive /\ svc.deps = key

\* The component function runs and calls useService(key).  `tick` flips at
\* every run of the component function.
useService(key) ==
  /\ locator # 0
  /\ stack = << >>
  /\ IF useMemoHit(key)
     THEN /\ svc' = [svc EXCEPT !.tick = ~@, !.out = svc.memo, !.how = "cached"]
          /\ UNCHANGED <<singletons, lazySingletonFactories, factories, stack,
                         calls, last, reg, everRegistered>>
     ELSE /\ get(key)
          /\ svc' = CASE Branch(key) = "singleton" ->
                           [alive |-> TRUE, rendering |-> FALSE, tick |-> ~svc.tick,
                            deps |-> key, memo |-> singletons[key],
                            out |-> singletons[key], how |-> "get"]
                      [] Branch(key) = "none" ->
                           [NoService EXCEPT !.tick = ~svc.tick, !.how = "threw"]
                      [] OTHER ->
                           [svc EXCEPT !.rendering = TRUE, !.tick = ~@, !.how = "get"]
  /\ UNCHANGED <<process, vmc>>

\* The factory get() invoked for useService returns: useMemo stores the value.
useServiceReturns ==
  /\ svc.rendering
  /\ factoryReturns
  /\ svc' = [svc EXCEPT !.alive = TRUE, !.rendering = FALSE,
                        !.deps = Head(stack).key,
                        !.memo = Created(Head(stack).n),
                        !.out = Created(Head(stack).n)]
  /\ UNCHANGED <<process, vmc>>

\* The factory throws: the render throws and React discards the component.
useServiceThrows ==
  /\ svc.rendering
  /\ factoryThrows
  /\ svc' = [NoService EXCEPT !.tick = svc.tick, !.how = "threw"]
  /\ UNCHANGED <<process, vmc>>

\* The component unmounts: its hook cells are gone.
unmountService ==
  /\ svc.alive
  /\ ~svc.rendering
  /\ svc' = [NoService EXCEPT !.tick = svc.tick]
  /\ UNCHANGED <<singletons, lazySingletonFactories, factories, stack, calls,
                 last, reg, everRegistered, process, vmc>>

\* Registry calls of the application around the component, none of them made
\* while the component function runs.
betweenRenders == onLocator /\ stack = << >> /\ UNCHANGED hooks

NextService ==
  \/ loadModule /\ UNCHANGED hooks
  \/ \E key \in Keys, inst \in Instances : betweenRenders /\ registerSingleton(key, inst)
  \/ \E key \in Keys, factory \in Factories :
       betweenRenders /\ registerLazySingleton(key, factory)
  \/ \E key \in Keys, factory \in Factories : betweenRenders /\ registerFactory(key, factory)
  \/ \E key \in Keys : betweenRenders /\ unregister(key)
  \/ betweenRenders /\ reset
  \/ \E key \in Keys : useService(key)
  \/ useServiceReturns
  \/ useServiceThrows
  \/ unmountService

SpecService == InitService /\ [][NextService]_vars

\* ----------------------------------------------------------- useViewModel
\* Fault: a hook that calls create on every render.
viewModelRefAlwaysNull == TRUE

\* `if (viewModelRef.current === null)`
viewModelRefIsNull == vmc.viewModelRef = 0

\* Fault: a continuation that does not look at isMountedRef.
stillMountedAlways == TRUE

\* `if (isMountedRef.current)` in initialize()
stillMounted == vmc.isMountedRef

\* The component function runs useViewModel({create, arguments, onInitialise,
\* onDispose}): the first render of the component, or a re-render while it
\* is mounted.  The effect of the first render keeps that render's options.
render(args, withInitialise, withDispose) ==
  /\ vmc.phase \in {"none", "mounted"}
  /\ viewModelRefIsNull => vmc.creates < MaxCreates
  /\ LET first == vmc.phase = "none"
         ref == IF viewModelRefIsNull THEN vmc.creates + 1 ELSE vmc.viewModelRef
     IN vmc' = [vmc EXCEPT
                  !.viewModelRef = ref,
                  !.creates = IF viewModelRefIsNull THEN @ + 1 ELSE @,
                  !.createArg = IF viewModelRefIsNull THEN args ELSE @,
                  !.viewModel = [arguments |-> args,
                                 isInitialised |-> vmc.isInitialised,
                                 isMounted |-> vmc.isMountedRef],
                  !.closure = IF first THEN ref ELSE @,
                  !.onInitialise = IF first THEN withInitialise ELSE @,
                  !.onDispose = IF first THEN withDispose ELSE @,
                  !.phase = IF first THEN "rendered" ELSE @,
                  !.dirty = FALSE,
                  !.handed = "render"]

\* setIsInitialised(true) as called by initialize(): React keeps the state
\* of a mounted component and schedules its re-render.
setIsInitialised(c) ==
  [c EXCEPT !.isInitialised = TRUE,
            !.dirty = (vmc.phase # "unmounted"),
            !.lateUpdate = @ \/ (vmc.phase = "unmounted")]

\* The effect of the first render runs after the commit: initialize() runs
\* up to its await (or to its end when no onInitialise was given).
effect ==
  /\ vmc.phase = "rendered"
  /\ LET mounted == [vmc EXCEPT !.phase = "mounted", !.isMountedRef = TRUE]
     IN vmc' = IF vmc.onInitialise
               THEN [mounted EXCEPT !.initialize = "pending",
                                    !.inits = @ + 1,
                                    !.initArg = vmc.closure,
                                    !.handed = "onInitialise"]
               ELSE [setIsInitialised(mounted) EXCEPT !.initialize = "resolved",
                                                      !.handed = "none"]

\* The promise onInitialise returned resolves and initialize() continues.
initializeResolves ==
  /\ vmc.initialize = "pending"
  /\ LET resumed == [vmc EXCEPT !.initialize = "resolved", !.handed = "none"]
     IN vmc' = IF stillMounted THEN setIsInitialised(resumed) ELSE resumed

\* onInitialise throws or its promise rejects: initialize() ends there.
initializeRejects ==
  /\ vmc.initialize = "pending"
  /\ vmc' = [vmc EXCEPT !.initialize = "rejected", !.handed = "none"]

\* rebuild(), the forceUpdate of useReducer: a re-render is scheduled while
\* the component is mounted.
rebuild ==
  /\ vmc.phase \in {"mounted", "unmounted"}
  /\ vmc' = [vmc EXCEPT !.dirty = (vmc.phase = "mounted"), !.handed = "none"]

\* The component unmounts: React runs the cleanup of the effect.
cleanup ==
  /\ vmc.phase = "mounted"
  /\ LET gone == [vmc EXCEPT !.phase = "unmounted", !.isMountedRef = FALSE,
                             !.dirty = FALSE]
     IN vmc' = IF vmc.onDispose
               THEN [gone EXCEPT !.disposes = @ + 1,
                                 !.disposeArg = vmc.closure,
                                 !.handed = "onDispose"]
               ELSE [gone EXCEPT !.handed = "none"]

\* The component uses no registry here.
noRegistry ==
  UNCHANGED <<singletons, lazySingletonFactories, factories, stack, calls,
              last, reg, everRegistered, process, svc>>

NextViewModel ==
  \/ \E args \in Args, withInitialise \in BOOLEAN, withDispose \in BOOLEAN :
       noRegistry /\ render(args, withInitialise, withDispose)
  \/ noRegistry /\ effect
  \/ noRegistry /\ initializeResolves
  \/ noRegistry /\ initializeRejects
  \/ noRegistry /\ rebuild
  \/ noRegistry /\ cleanup

SpecViewModel == InitViewModel /\ [][NextViewModel]_vars

\* ================================================================ claims
\* What the claims speak of, stated over the three Maps directly.
InSingletons(k) == k \in DOMAIN singletons
InLazy(k) == k \in DOMAIN lazySingletonFactories
InFactories(k) == k \in DOMAIN factories
InAnyMap(k) == InSingletons(k) \/ InLazy(k) \/ InFactories(k)
HowManyMaps(k) ==
  Cardinality({m \in {"singletons", "lazySingletonFactories", "factories"} :
      \/ m = "singletons" /\ InSingletons(k)
      \/ m = "lazySingletonFactories" /\ InLazy(k)
      \/ m = "factories" /\ InFactories(k)})
RegisterOps == {"registerSingleton", "registerLazySingleton", "registerFactory"}
\* The step is a call (it does not return from a running factory).
IsCallStep == Len(stack') >= Len(stack)
\* The step is the return or the throw of the innermost running factory.
IsReturnStep == Len(stack') < Len(stack)

\* C1: in every reachable state, every key is in at most one of singletons,
\* lazySingletonFactories and factories, whatever calls were made, also
\* from inside a factory that get is running.
C1_MapsDisjoint == \A k \in Keys : HowManyMaps(k) <= 1

\* C2: a register call of any kind on a key that is in any of the three maps
\* throws the duplicate-key error naming that key and leaves the three maps
\* as they were.
C2_DuplicateRejected ==
  [][\A k \in Keys :
       (InAnyMap(k) /\ last'.op \in RegisterOps /\ last'.key = k)
         => (last'.outcome = "duplicate" /\ maps' = maps)]_vars

\* C2 witness: registerSingleton was just rejected for a key held by
\* lazySingletonFactories (a cross-kind duplicate).
C2_Witness ==
  /\ last.op = "registerSingleton"
  /\ last.outcome = "duplicate"
  /\ InLazy(last.key)

\* C3: registerSingleton(k, v) returns v, and while k is not removed by
\* unregister(k) or reset(), k is registered, singletons holds v for k, and a
\* get(k) returns v.
C3_SingletonStable ==
  /\ (last.op = "registerSingleton" /\ last.outcome = "ok")
       => last.value = reg[last.key].result
  /\ \A k \in Keys :
       reg[k].kind = "singleton"
         => /\ isRegistered(k)
            /\ InSingletons(k)
            /\ singletons[k] = reg[k].result
            /\ (last.op = "get" /\ last.key = k /\ last.outcome = "ok")
                 => last.value = reg[k].result

\* C4: while a registerLazySingleton(k, f) registration stands, f is invoked
\* at most once, exactly once as soon as a get(k) has returned, and every
\* get(k) returns the value of that one invocation.
C4_LazyInvokedOnce ==
  \A k \in Keys :
    reg[k].kind = "lazy"
      => /\ reg[k].invoked <= 1
         /\ (reg[k].result # NoValue => reg[k].invoked = 1)
         /\ (last.op = "get" /\ last.key = k /\ last.outcome = "ok")
              => last.value = reg[k].result

\* C5 as stated: after a get(k) whose lazy factory threw, k is still in
\* lazySingletonFactories and not in singletons.
C5_ThrowKeepsLazy ==
  (last.op = "get" /\ last.outcome = "factoryError" /\ last.branch = "lazy")
    => (InLazy(last.key) /\ ~InSingletons(last.key))

\* C5 amended: when the factory of a lazy singleton k throws, get(k) ends with
\* that error and writes nothing: the three maps are as the factory left them
\* and no factory is invoked; and when no call made while the factory ran
\* changed the registry, k is still in lazySingletonFactories with the same
\* factory and not in singletons, so the next get(k) invokes it again.
C5_ThrowWritesNothing ==
  [][(IsReturnStep /\ last'.outcome # "ok")
       => /\ last'.op = "get"
          /\ last'.outcome = "factoryError"
          /\ last'.key = Head(stack).key
          /\ maps' = maps
          /\ calls' = calls
          /\ (Head(stack).branch = "lazy" /\ ~Head(stack).touched)
               => /\ Head(stack).key \in DOMAIN lazySingletonFactories'
                  /\ Head(stack).key \notin DOMAIN singletons'
                  /\ lazySingletonFactories'[Head(stack).key]
                       = lazySingletonFactories[Head(stack).key]]_vars

\* C5 witness: the lazy factory of a key threw, nothing changed the registry
\* meanwhile, and the key is still unresolved.
C5_Witness ==
  /\ last.op = "get"
  /\ last.outcome = "factoryError"
  /\ last.branch = "lazy"
  /\ InLazy(last.key)
  /\ ~InSingletons(last.key)
  /\ reg[last.key].kind = "lazy"
  /\ reg[last.key].invoked = 1
  /\ stack = << >>

\* C6: while a registerFactory(k, f) registration stands, k is in factories
\* and not in singletons, and every get(k) that returns took the factory
\* branch and returns the object its own invocation created.
C6_FactoryNeverCached ==
  \A k \in Keys :
    reg[k].kind = "factory"
      => /\ InFactories(k)
         /\ ~InSingletons(k)
         /\ (last.op = "get" /\ last.key = k /\ last.outcome = "ok")
              => (last.branch = "factory" /\ last.value.src = "factory")

\* C7: get(k) for a key in none of the three maps throws the not-registered
\* error naming k, invokes no factory and leaves the three maps unchanged.
C7_GetUnregisteredThrows ==
  [][\A k \in Keys :
       (~InAnyMap(k) /\ IsCallStep /\ last'.op \in {"get", "invoke"} /\ last'.key = k)
         => /\ last'.op = "get"
            /\ last'.outcome = "notRegistered"
            /\ maps' = maps
            /\ calls' = calls
            /\ stack' = stack]_vars

\* C7 witness: get was just refused for a key that is in no map, after a
\* factory has been invoked earlier in the run.
C7_Witness ==
  /\ last.op = "get"
  /\ last.outcome = "notRegistered"
  /\ ~InAnyMap(last.key)
  /\ calls > 0

\* The state of a key in the per-key state machine: the map get finds it in.
Kind(k) ==
  IF InSingletons(k) THEN "Singleton"
  ELSE IF InLazy(k) THEN "LazySingleton"
  ELSE IF InFactories(k) THEN "Factory"
  ELSE "Unregistered"

\* C8: the state of a key changes only from Unregistered to the kind of a
\* successful register call for it, from LazySingleton to Singleton by a get
\* of it that returned, and to Unregistered by unregister of it or reset.
C8_KeyTransitions ==
  [][\A k \in Keys :
       Kind(k)' # Kind(k)
         => \/ /\ Kind(k) = "Unregistered"
               /\ last'.key = k
               /\ last'.outcome = "ok"
               /\ \/ Kind(k)' = "Singleton" /\ last'.op = "registerSingleton"
                  \/ Kind(k)' = "LazySingleton" /\ last'.op = "registerLazySingleton"
                  \/ Kind(k)' = "Factory" /\ last'.op = "registerFactory"
            \/ /\ Kind(k) = "LazySingleton"
               /\ Kind(k)' = "Singleton"
               /\ last'.op = "get"
               /\ last'.key = k
               /\ last'.outcome = "ok"
            \/ /\ Kind(k)' = "Unregistered"
               /\ \/ last'.op = "unregister" /\ last'.key = k
                  \/ last'.op = "reset"]_vars

\* C9: isRegistered(k) returns true exactly when k is in at least one of the
\* three maps; the call invokes no factory and changes no map, so an
\* unresolved lazy singleton is reported registered and stays unresolved.
C9_IsRegisteredExact ==
  [][last'.op = "isRegistered"
       => /\ (last'.outcome = "true") <=> InAnyMap(last'.key)
          /\ last'.outcome \in {"true", "false"}
          /\ maps' = maps
          /\ calls' = calls
          /\ stack' = stack]_vars

\* C9 witness: isRegistered just returned true for a lazy singleton whose
\* factory has never been invoked, and the key is still unresolved.
C9_Witness ==
  /\ last.op = "isRegistered"
  /\ last.outcome = "true"
  /\ InLazy(last.key)
  /\ ~InSingletons(last.key)
  /\ reg[last.key].kind = "lazy"
  /\ reg[last.key].invoked = 0

\* C10: isRegistered(k) is false for a key no register call ever accepted,
\* false for k right after unregister(k), and false for every key right after
\* reset().
C10_UnregisteredIsFalse ==
  /\ \A k \in Keys \ everRegistered : ~isRegistered(k)
  /\ last.op = "unregister" => ~isRegistered(last.key)
  /\ last.op = "reset" => \A k \in Keys : ~isRegistered(k)

\* C10 witness: unregister just removed a key whose singletons entry was the
\* object a lazy factory created (a promoted lazy singleton), while the other
\* key was never registered.
C10_Witness ==
  /\ last.op = "unregister"
  /\ last.branch = "singleton"
  /\ last.value.src = "factory"
  /\ ~isRegistered(last.key)
  /\ everRegistered = {last.key}

\* C11: unregister(k) never throws; for a key in none of the three maps it
\* leaves the maps unchanged; it leaves k in no map, so a second unregister(k)
\* in a row changes nothing.
C11_UnregisterIdempotent ==
  [][\A k \in Keys :
       (last'.op = "unregister" /\ last'.key = k)
       => /\ last'.outcome = "ok"
          /\ ~InAnyMap(k) => maps' = maps
          /\ ~InAnyMap(k)'
          /\ (last.op = "unregister" /\ last.key = k) => maps' = maps]_vars

\* C11 witness: unregister was just called for a key that no register call
\* ever accepted, while the other key is registered.
C11_Witness ==
  /\ last.op = "unregister"
  /\ last.outcome = "ok"
  /\ last.branch = "none"
  /\ last.key \notin everRegistered
  /\ \E k \in Keys : InAnyMap(k)

\* C12: reset() never throws and leaves the three maps empty, as they are
\* after construction: isRegistered is false for every key, and the call made
\* next finds every key unregistered (get throws not-registered, a register
\* call of any kind succeeds).
C12_ResetEmpties ==
  [][/\ last'.op = "reset"
          => /\ last'.outcome = "ok"
             /\ singletons' = MapEmpty
             /\ lazySingletonFactories' = MapEmpty
             /\ factories' = MapEmpty
             /\ \A k \in Keys : ~isRegistered(k)'
     /\ (last.op = "reset" /\ IsCallStep)
          => /\ last'.op # "invoke"
             /\ last'.op = "get" => last'.outcome = "notRegistered"
             /\ last'.op \in RegisterOps => last'.outcome = "ok"
             /\ last'.op = "isRegistered" => last'.outcome = "false"]_vars

\* C12 witness: reset just cleared a registry in which both keys were
\* registered, after a factory had been invoked.
C12_Witness ==
  /\ last.op = "reset"
  /\ last.value.n = 2
  /\ calls > 0
  /\ \A k \in Keys : ~InAnyMap(k)

\* C13 as stated: when a get that found its key in factories returns, the
\* three maps are as they were before the call.
C13_FactoryGetLeavesMaps ==
  [][(IsReturnStep /\ Head(stack).branch = "factory") => ~Head(stack).touched]_vars

\* C13 amended: get itself writes to the maps only in the promotion, when the
\* factory of a key found in lazySingletonFactories has returned: that step
\* sets singletons[key] and deletes lazySingletonFactories[key]; every other
\* step of a get (singleton found, factory invoked, factory returned in the
\* factory branch, a throw) leaves the three maps as they are, so they differ
\* from the maps before the call only by what the factory itself did.
C13_OnlyPromotionWrites ==
  [][last'.op \in {"get", "invoke"}
       => \/ maps' = maps
          \/ /\ IsReturnStep
             /\ Head(stack).branch = "lazy"
             /\ last'.outcome = "ok"
             /\ singletons' = MapSet(singletons, Head(stack).key, last'.value)
             /\ lazySingletonFactories'
                  = MapDelete(lazySingletonFactories, Head(stack).key)
             /\ factories' = factories]_vars

\* C13 witness: a get that found its key in factories has returned to the
\* top level, nothing touched the registry meanwhile, and the key is still
\* only in factories.
C13_Witness ==
  /\ last.op = "get"
  /\ last.outcome = "ok"
  /\ last.branch = "factory"
  /\ stack = << >>
  /\ InFactories(last.key)
  /\ ~InSingletons(last.key)
  /\ reg[last.key].kind = "factory"
  /\ reg[last.key].invoked = 1

\* C14: there is one LocatorService: every read of LocatorService.I returns
\* the object the first read constructed, the exported locator is that
\* object, and no call replaces it.
C14_OneInstance ==
  /\ constructed <= 1
  /\ locator = 0 => (_instance = 0 /\ constructed = 0)
  /\ locator # 0 => (_instance = locator /\ locator = 1 /\ constructed = 1)
  /\ last.op \in {"I", "load"} => last.value = LocatorObject(locator)

\* C14 witness: LocatorService.I was just read after reset() had cleared a
\* registry with a factory invoked earlier.
C14_Witness ==
  /\ last.op = "I"
  /\ last.value = LocatorObject(locator)
  /\ calls > 0
  /\ everRegistered # {}
  /\ \A k \in Keys : ~InAnyMap(k)

\* C19: once a get(k) has returned v for a key registered with
\* registerLazySingleton, and until unregister(k) or reset(), k is in
\* singletons bound to v and not in lazySingletonFactories, isRegistered(k) is
\* true, and every get(k) returns v from singletons without invoking a factory.
C19_PromotedStays ==
  [][\A k \in Keys :
       (reg[k].kind = "lazy" /\ reg[k].result # NoValue)
         => /\ InSingletons(k)
            /\ singletons[k] = reg[k].result
            /\ ~InLazy(k)
            /\ isRegistered(k)
            /\ (last'.op \in {"get", "invoke"} /\ last'.key = k)
                 => /\ last'.op = "get"
                    /\ last'.outcome = "ok"
                    /\ last'.branch = "singleton"
                    /\ last'.value = reg[k].result]_vars

\* C20: a register call for k made right after unregister(k) or reset()
\* succeeds, and k then follows the new registration only: a lazy singleton
\* whose factory was not invoked yet is in lazySingletonFactories alone, a
\* singleton is bound to the instance registered, a factory key has no entry
\* in singletons.
C20_ReRegistrationFresh ==
  [][/\ \A k \in Keys :
          (/\ last.op \in {"unregister", "reset"}
           /\ last.key \in {k, ""}
           /\ IsCallStep
           /\ last'.op \in RegisterOps
           /\ last'.key = k)
          => last'.outcome = "ok"
     /\ \A k \in Keys :
          /\ (reg'[k].kind = "lazy" /\ reg'[k].invoked = 0)
               => (InLazy(k)' /\ ~InSingletons(k)' /\ ~InFactories(k)')
          /\ reg'[k].kind = "singleton"
               => (InSingletons(k)' /\ singletons'[k] = reg'[k].result
                   /\ ~InLazy(k)' /\ ~InFactories(k)')
          /\ reg'[k].kind = "factory"
               => (InFactories(k)' /\ ~InSingletons(k)' /\ ~InLazy(k)')]_vars

C16_LifecycleOnce ==
  /\ vmc.creates <= 1
  /\ vmc.phase = "none" => (vmc.creates = 0 /\ vmc.inits = 0 /\ vmc.disposes = 0)
  /\ vmc.phase # "none" => (vmc.creates = 1 /\ vmc.viewModelRef = 1)
  /\ vmc.inits <= 1
  /\ vmc.inits = 1 => (vmc.creates = 1 /\ vmc.initArg = 1)
  /\ (vmc.phase \in {"mounted", "unmounted"} /\ vmc.onInitialise) => vmc.inits = 1
  /\ vmc.disposes <= 1
  /\ vmc.disposes = 1 <=> (vmc.phase = "unmounted" /\ vmc.onDispose)
  /\ vmc.disposes = 1 => vmc.disposeArg = 1

\* C16 witness: the component was rendered first with one value of arguments,
\* re-rendered with another, and unmounted; both callbacks have run.
C16_Witness ==
  /\ vmc.phase = "unmounted"
  /\ vmc.creates = 1
  /\ vmc.inits = 1
  /\ vmc.disposes = 1
  /\ vmc.viewModel.arguments # vmc.createArg

\* C17: isInitialised is false before the first render; it only ever changes
\* to true, in a step that leaves the component mounted; when onInitialise
\* was given it is true only if the promise resolved, never after a
\* rejection; no state update is made after the unmount.
C17_InitialisedWhileMounted ==
  [][/\ vmc.phase = "none" => ~vmc.isInitialised
     /\ vmc'.isInitialised # vmc.isInitialised
          => (vmc'.isInitialised /\ vmc'.phase = "mounted")
     /\ (vmc'.isInitialised /\ vmc'.onInitialise) => vmc'.initialize = "resolved"
     /\ vmc'.initialize = "rejected" => ~vmc'.isInitialised
     /\ (vmc'.initialize = "resolved" /\ vmc'.phase = "unmounted"
           /\ vmc.initialize = "pending") => ~vmc'.isInitialised
     /\ ~vmc'.lateUpdate]_vars

\* C17 witness: the component unmounted while onInitialise was pending, the
\* promise has resolved since, and isInitialised is false.
C17_Witness ==
  /\ vmc.phase = "unmounted"
  /\ vmc.onInitialise
  /\ vmc.initialize = "resolved"
  /\ ~vmc.isInitialised

\* C18: when the ViewModel is handed to caller code (render result,
\* onInitialise, onDispose), its isMounted field says whether the component
\* is mounted and its isInitialised field whether initialization completed.
C18_FieldsTrackComponent ==
  vmc.handed # "none"
    => /\ vmc.viewModel.isMounted = (vmc.phase \in {"rendered", "mounted"})
       /\ vmc.viewModel.isInitialised = vmc.isInitialised

\* C21: when get(a) on a lazy singleton has returned and its constructor
\* resolved the lazy singleton b by a nested get(b), then a and b are both
\* in singletons and in no other map, bound to the objects their constructors
\* made, and each of the two constructors was invoked once.
C21_NestedLazyBothPromoted ==
  \A a \in Keys : \A b \in Keys \ {a} :
    (/\ last.op = "get" /\ last.key = a /\ last.outcome = "ok"
     /\ last.branch = "lazy"
     /\ reg[a].kind = "lazy"
     /\ reg[b].kind = "lazy"
     /\ reg[b].result.src = "factory"
     /\ reg[b].result.n > last.value.n)
    => /\ InSingletons(a) /\ ~InLazy(a) /\ ~InFactories(a)
       /\ InSingletons(b) /\ ~InLazy(b) /\ ~InFactories(b)
       /\ singletons[a] = last.value
       /\ singletons[b] = reg[b].result
       /\ reg[a].invoked = 1
       /\ reg[b].invoked = 1

\* C21 witness: get(a) has just returned to the top level, and the
\* constructor of b ran inside the constructor of a.
C21_Witness ==
  /\ last.op = "get" /\ last.outcome = "ok" /\ last.branch = "lazy"
  /\ stack = << >>
  /\ calls = 2
  /\ last.value = Created(1)
  /\ \E b \in Keys \ {last.key} :
       /\ reg[b].kind = "lazy"
       /\ reg[b].result = Created(2)
       /\ InSingletons(b)
  /\ InSingletons(last.key)

C23_ResolutionOrder ==
  [][\A k \in Keys :
       (IsCallStep /\ last'.op \in {"get", "invoke"} /\ last'.key = k)
       => /\ InSingletons(k)
               => /\ last' = Done("get", k, "ok", "singleton", singletons[k])
                  /\ calls' = calls
                  /\ stack' = stack
                  /\ maps' = maps
          /\ (~InSingletons(k) /\ InLazy(k))
               => /\ last'.op = "invoke"
                  /\ last'.branch = "lazy"
                  /\ last'.value.src = lazySingletonFactories[k]
          /\ (~InSingletons(k) /\ ~InLazy(k) /\ InFactories(k))
               => /\ last'.op = "invoke"
                  /\ last'.branch = "factory"
                  /\ last'.value.src = factories[k]]_vars

\* C23 witness: get(k) has just returned the value of singletons for a key
\* that is in factories as well.
C23_Witness ==
  /\ last.op = "get"
  /\ last.outcome = "ok"
  /\ last.branch = "singleton"
  /\ InSingletons(last.key)
  /\ InFactories(last.key)
  /\ last.value = singletons[last.key]

\* C24: in every reachable state and for every key k, a call of
\* isRegistered(k) and a call of get(k) agree: isRegistered(k) returns true
\* exactly when k is in one of the maps, and get(k) throws the not-registered
\* error exactly when k is in none (otherwise it returns a value or invokes
\* the constructor, whose own error it lets through).
C24_IsRegisteredAgreesWithGet ==
  [][LET k == last'.key
     IN k \in Keys
        => /\ (last'.op = "isRegistered" /\ IsCallStep)
                => (last'.outcome = "true") = InAnyMap(k)
           /\ ((last'.op = "get" \/ last'.op = "invoke") /\ IsCallStep)
                => /\ (last'.outcome = "notRegistered") = ~InAnyMap(k)
                   /\ last'.outcome \in {"ok", "running", "notRegistered"}
           /\ IsReturnStep
                => /\ last'.op = "get"
                   /\ last'.outcome \in {"ok", "factoryError"}]_vars

\* C24 witness: get(k) has just let the error of k's constructor through,
\* and k is registered (isRegistered(k) is true).
C24_Witness ==
  /\ last.op = "get"
  /\ last.outcome = "factoryError"
  /\ stack = << >>
  /\ InAnyMap(last.key)
  /\ reg[last.key].kind # "none"

\* What a map holds for a key: its value, or nothing.
Binding(m, k) == IF k \in DOMAIN m THEN <<m[k]>> ELSE << >>

\* C25: every step of an operation that names a key k (the register
\* methods, unregister, isRegistered, and get: its call, its throw, and its
\* return with the promotion) leaves what each of the three maps holds for
\* every other key unchanged; only reset changes keys it was not given.  A
\* get(k) whose constructor made no registry call therefore leaves every
\* other key as it was when get was called.
C25_OtherKeysUntouched ==
  [][\A k \in Keys :
       (last'.key = k /\ last'.op # "reset")
       => /\ \/ maps' = maps
             \/ \A k2 \in Keys \ {k} :
                  /\ Binding(singletons', k2) = Binding(singletons, k2)
                  /\ Binding(lazySingletonFactories', k2)
                       = Binding(lazySingletonFactories, k2)
                  /\ Binding(factories', k2) = Binding(factories, k2)
          /\ (IsReturnStep /\ ~Head(stack).touched)
               => /\ Head(stack).key = k
                  /\ factories' = factories
                  /\ Head(stack).branch = "factory" => maps' = maps]_vars

\* C25 witness: unregister(k) has just removed a resolved singleton while
\* the other key is registered as a lazy singleton and a factory is running.
C25_Witness ==
  /\ last.op = "unregister"
  /\ last.branch = "singleton"
  /\ ~InAnyMap(last.key)
  /\ \E k2 \in Keys \ {last.key} : InLazy(k2)
  /\ stack # << >>

\* The operations other than get.
QuietOps == RegisterOps \cup {"isRegistered", "unregister", "reset"}

\* C26: a constructor is invoked only by a get call that resolves its own
\* key, and the function invoked is the one registered under that key at
\* that moment.  The register methods (accepted or rejected as duplicate),
\* isRegistered, unregister and reset invoke nothing; so a lazy singleton
\* that was unregistered or reset before its first get is never constructed.
C26_OnlyGetInvokes ==
  [][/\ (calls' # calls \/ Len(stack') > Len(stack))
          => /\ last'.op = "invoke"
             /\ calls' = calls + 1
             /\ last'.key \in Keys
             /\ ~InSingletons(last'.key)
             /\ \/ /\ last'.branch = "lazy"
                   /\ InLazy(last'.key)
                   /\ last'.value.src = lazySingletonFactories[last'.key]
                \/ /\ last'.branch = "factory"
                   /\ InFactories(last'.key)
                   /\ last'.value.src = factories[last'.key]
             /\ reg'[last'.key].invoked = reg[last'.key].invoked + 1
             /\ \A k \in Keys \ {last'.key} : reg'[k].invoked = reg[k].invoked
     /\ last'.op \in QuietOps
          => /\ calls' = calls
             /\ Len(stack') = Len(stack)
             /\ \A k \in Keys : reg'[k].invoked <= reg[k].invoked
     /\ \A k \in Keys :
          (/\ reg[k].kind = "lazy"
           /\ reg[k].invoked = 0
           /\ \/ last'.op = "unregister" /\ last'.key = k
              \/ last'.op = "reset")
          => (~InAnyMap(k)' /\ reg'[k].invoked = 0)]_vars

\* C26 witness: a lazy singleton was registered and removed without a get;
\* the get made now finds nothing, and no constructor has run at all.
C26_Witness ==
  /\ last.op = "get"
  /\ last.outcome = "notRegistered"
  /\ last.key \in everRegistered
  /\ calls = 0
  /\ \A k \in Keys : ~InSingletons(k) /\ ~InFactories(k)

====
